---- MODULE Spec2Model ----
(***************************************************************************)
(* Black-Scholes pricing, Greeks and historical volatility of              *)
(* src/src/research/option_pricing.py.                                     *)
(*                                                                         *)
(* Python floats and numpy float64 values are modelled as binary           *)
(* floating-point numbers s * m * 2^e: a sign, a significand of Prec bits  *)
(* and a binary exponent, rounded to nearest (ties to even), with the      *)
(* exponent range, the signed zeros, the infinities and the NaN of an      *)
(* IEEE-754 double.  A raised Python exception is the value Raise(name);   *)
(* it propagates through every operation, left operand first.              *)
(***************************************************************************)
EXTENDS Integers, Sequences, FiniteSets, TLC

(***************************************************************************)
(* The float type.                                                         *)
(***************************************************************************)
\* Significand bits kept by the model (a double keeps 53).
Prec == 15

\* 2^Prec and 2^(Prec-1): the significand m of a nonzero number satisfies
\* MantLo <= m < MantHi.
MantHi == 32768

MantLo == 16384

\* floor(log2 x) of the largest double, and of half the smallest subnormal
\* double (2^-1075, which rounds to zero, as does everything below it).
MaxTop == 1023

MinTop == -1075

\* 2^n, 0 <= n <= 30.
Pow2(n) == 2^n

\* The number of bits of M, 0 < M < 2^31.
NumBits(M) == CHOOSE n \in 1..31 : Pow2(n - 1) <= M /\ (n = 31 \/ M < Pow2(n))

NaN == [k |-> "nan", s |-> 1, m |-> 0, e |-> 0]

Inf(s) == [k |-> "inf", s |-> s, m |-> 0, e |-> 0]

Zero(s) == [k |-> "num", s |-> s, m |-> 0, e |-> 0]

Raise(exc) == [k |-> "err", s |-> 1, m |-> 0, e |-> 0, exc |-> exc]

IsErr(x) == x.k = "err"

IsNaN(x) == x.k = "nan"

IsInf(x) == x.k = "inf"

IsNum(x) == x.k = "num"

IsZero(x) == x.k = "num" /\ x.m = 0

\* The float s * m * 2^e of a normalised significand m: overflow to an
\* infinity, underflow to a signed zero.
Pack(s, m, e) ==
  IF e + Prec - 1 > MaxTop THEN Inf(s)
  ELSE IF e + Prec - 1 < MinTop \/ (e + Prec - 1 = MinTop /\ m = MantLo)
    THEN Zero(s)
  ELSE [k |-> "num", s |-> s, m |-> m, e |-> e]

\* M / p rounded to the nearest integer, ties to even.
RoundDiv(M, p) ==
  IF 2 * (M % p) > p \/ (2 * (M % p) = p /\ (M \div p) % 2 = 1)
    THEN M \div p + 1
  ELSE M \div p

\* s * r * 2^e, where r has Prec bits or rounding has carried it to 2^Prec.
Carry(s, r, e) ==
  IF r = MantHi THEN Pack(s, MantLo, e + 1) ELSE Pack(s, r, e)

\* s * M * 2^E for an M of n bits.
Normalise(s, M, E, n) ==
  IF n > Prec THEN Carry(s, RoundDiv(M, Pow2(n - Prec)), E + n - Prec)
  ELSE Pack(s, M * Pow2(Prec - n), E + n - Prec)

\* The double nearest to s * M * 2^E (M >= 0 an integer): the significand
\* rounded to Prec bits, ties to even; overflow to an infinity, underflow to
\* a signed zero.
Mk(s, M, E) == IF M = 0 THEN Zero(s) ELSE Normalise(s, M, E, NumBits(M))

\* The integer i as a float.
Int2F(i) == IF i < 0 THEN Mk(-1, -i, 0) ELSE Mk(1, i, 0)

One == Int2F(1)

Two == Int2F(2)

Half == Mk(1, 1, -1)

Neg(x) ==
  IF IsErr(x) \/ IsNaN(x) THEN x ELSE [x EXCEPT !.s = -x.s]

Abs(x) ==
  IF IsErr(x) \/ IsNaN(x) THEN x ELSE [x EXCEPT !.s = 1]

\* |x| < |y| for two numbers.
MagLt(x, y) ==
  IF y.m = 0 THEN FALSE
  ELSE IF x.m = 0 THEN TRUE
  ELSE x.e < y.e \/ (x.e = y.e /\ x.m < y.m)

\* x < y, as the comparison of two doubles: false when either is a NaN, and
\* -0.0 is not below 0.0.
Lt(x, y) ==
  IF IsErr(x) \/ IsErr(y) \/ IsNaN(x) \/ IsNaN(y) THEN FALSE
  ELSE IF IsInf(x) THEN x.s = -1 /\ ~(IsInf(y) /\ y.s = -1)
  ELSE IF IsInf(y) THEN y.s = 1
  ELSE IF x.m = 0 /\ y.m = 0 THEN FALSE
  ELSE IF x.m = 0 THEN y.s = 1
  ELSE IF y.m = 0 THEN x.s = -1
  ELSE IF x.s # y.s THEN x.s = -1
  ELSE IF x.s = 1 THEN MagLt(x, y) ELSE MagLt(y, x)

\* x == y, as the comparison of two doubles.
Eq(x, y) ==
  IF IsErr(x) \/ IsErr(y) \/ IsNaN(x) \/ IsNaN(y) THEN FALSE
  ELSE IF IsInf(x) \/ IsInf(y) THEN IsInf(x) /\ IsInf(y) /\ x.s = y.s
  ELSE IF x.m = 0 \/ y.m = 0 THEN x.m = y.m
  ELSE x.s = y.s /\ x.m = y.m /\ x.e = y.e

Le(x, y) == Lt(x, y) \/ Eq(x, y)

\* x + y of two finite numbers, |x| >= |y|, x nonzero.
AddOrdered(x, y) ==
  LET d == x.e - y.e
      A == x.m * MantHi
      B == IF y.m = 0 \/ d > Prec + 1 THEN 0 ELSE (y.m * MantHi) \div Pow2(d)
  IN IF x.s = y.s THEN Mk(x.s, A + B, x.e - Prec)
     ELSE IF A = B THEN Zero(1)
     ELSE Mk(x.s, A - B, x.e - Prec)

\* IEEE-754 addition.
Add(x, y) ==
  IF IsErr(x) THEN x ELSE IF IsErr(y) THEN y
  ELSE IF IsNaN(x) \/ IsNaN(y) THEN NaN
  ELSE IF IsInf(x) THEN (IF IsInf(y) /\ y.s # x.s THEN NaN ELSE x)
  ELSE IF IsInf(y) THEN y
  ELSE IF x.m = 0 /\ y.m = 0 THEN Zero(IF x.s = -1 /\ y.s = -1 THEN -1 ELSE 1)
  ELSE IF MagLt(x, y) THEN AddOrdered(y, x) ELSE AddOrdered(x, y)

Sub(x, y) == Add(x, Neg(y))

\* IEEE-754 multiplication.
Mul(x, y) ==
  IF IsErr(x) THEN x ELSE IF IsErr(y) THEN y
  ELSE IF IsNaN(x) \/ IsNaN(y) THEN NaN
  ELSE IF IsInf(x) \/ IsInf(y)
    THEN (IF IsZero(x) \/ IsZero(y) THEN NaN ELSE Inf(x.s * y.s))
  ELSE Mk(x.s * y.s, x.m * y.m, x.e + y.e)

\* IEEE-754 division, as numpy's float64 performs it: a zero divisor gives
\* an infinity or a NaN (and a RuntimeWarning), never an exception.
NpDiv(x, y) ==
  IF IsErr(x) THEN x ELSE IF IsErr(y) THEN y
  ELSE IF IsNaN(x) \/ IsNaN(y) THEN NaN
  ELSE IF IsInf(x) THEN (IF IsInf(y) THEN NaN ELSE Inf(x.s * y.s))
  ELSE IF IsInf(y) THEN Zero(x.s * y.s)
  ELSE IF y.m = 0 THEN (IF x.m = 0 THEN NaN ELSE Inf(x.s * y.s))
  ELSE IF x.m = 0 THEN Zero(x.s * y.s)
  ELSE LET q == (x.m * MantHi * 2) \div y.m
           r == (x.m * MantHi * 2) % y.m
       IN Mk(x.s * y.s, 2 * q + (IF r = 0 THEN 0 ELSE 1),
             x.e - y.e - Prec - 2)

\* Division of two Python floats: a zero divisor raises ZeroDivisionError.
PyDiv(x, y) ==
  IF IsErr(x) THEN x ELSE IF IsErr(y) THEN y
  ELSE IF IsZero(y) THEN Raise("ZeroDivisionError")
  ELSE NpDiv(x, y)

\* The decimal literal i * 10^-d, rounded to the nearest float as the Python
\* parser rounds it: Lit(1, 2) is 0.01, Lit(-2, 1) is -0.2.
Lit(i, d) ==
  IF d = 0 THEN Int2F(i)
  ELSE NpDiv(Int2F(i), Int2F(IF d = 1 THEN 10 ELSE IF d = 2 THEN 100 ELSE 1000))

(***************************************************************************)
(* The library functions: log, sqrt and exp of math and numpy, and the     *)
(* cdf and pdf of scipy.stats.norm.  They are computed in fixed point      *)
(* (integers scaled by Fx = 2^16) and rounded to a float.                  *)
(***************************************************************************)
Fx == 65536

\* ln 2, scaled by Fx.
FxLn2 == 45426

\* sqrt 2, scaled by Fx.
FxSqrt2 == 92682

\* (a * b) / Fx without leaving 32 bits (b >= 0, |a| and b below 2^20).
FxMul(a, b) == ((a \div 256) * b) \div 256 + ((a % 256) * b) \div Fx

\* (a * Fx) / b without leaving 32 bits (0 <= a < 2^22, 0 < b < 2^22).
FxDiv(a, b) ==
  LET q1 == (a * 256) \div b
      r1 == (a * 256) % b
  IN q1 * 256 + (r1 * 256) \div b

\* The finite number x as an integer scaled by Fx (|x| < 2^10).
ToFx(x) ==
  LET sh == x.e + 16
      v == IF x.m = 0 THEN 0
           ELSE IF sh >= 0 THEN x.m * Pow2(sh)
           ELSE IF sh < -20 THEN 0
           ELSE (x.m + Pow2(-sh - 1)) \div Pow2(-sh)
  IN x.s * v

FromFx(v) == IF v < 0 THEN Mk(-1, -v, -16) ELSE Mk(1, v, -16)

\* ln w for w in (Fx / sqrt 2, Fx * sqrt 2], scaled by Fx:
\* 2 * (z + z^3/3 + z^5/5) with z = (w - 1) / (w + 1).
FxLnNear1(w) ==
  LET a == IF w >= Fx THEN w - Fx ELSE Fx - w
      z == FxDiv(a, w + Fx)
      z2 == (z * z) \div Fx
      z3 == (z * z2) \div Fx
      z5 == (z3 * z2) \div Fx
      v == 2 * (z + z3 \div 3 + z5 \div 5)
  IN IF w >= Fx THEN v ELSE -v

\* ln x of a finite x > 0: x = y * 2^t with 1 <= y < 2, and
\* ln x = ln y + t * ln 2 (y halved first when above sqrt 2).
Ln(x) ==
  LET y == x.m * 4
      t == x.e + Prec - 1
  IN IF y > FxSqrt2 THEN FromFx(FxLnNear1(y \div 2) + (t + 1) * FxLn2)
     ELSE FromFx(FxLnNear1(y) + t * FxLn2)

\* math.log: a ValueError ("math domain error") for x <= 0.
MathLog(x) ==
  IF IsErr(x) \/ IsNaN(x) THEN x
  ELSE IF IsInf(x) THEN (IF x.s = 1 THEN x ELSE Raise("ValueError"))
  ELSE IF x.m = 0 \/ x.s = -1 THEN Raise("ValueError")
  ELSE Ln(x)

\* numpy.log: -inf at zero and NaN below it (with a RuntimeWarning).
NpLog(x) ==
  IF IsErr(x) \/ IsNaN(x) THEN x
  ELSE IF IsInf(x) THEN (IF x.s = 1 THEN x ELSE NaN)
  ELSE IF x.m = 0 THEN Inf(-1)
  ELSE IF x.s = -1 THEN NaN
  ELSE Ln(x)

\* One step of Newton's iteration for the integer square root of n.
ISqrtStep(n, g) ==
  LET h == (g + n \div g) \div 2 IN IF h >= g THEN g ELSE h

\* The integer square root of n, 2^28 <= n < 2^30: six steps from 2^15.
ISqrt(n) ==
  ISqrtStep(n, ISqrtStep(n, ISqrtStep(n, ISqrtStep(n, ISqrtStep(n,
    ISqrtStep(n, MantHi))))))

\* The square root of a finite x >= 0.
SqrtNum(x) ==
  IF x.m = 0 THEN x
  ELSE LET odd == x.e % 2 = 1
           M == IF odd THEN x.m * 2 ELSE x.m
           E == IF odd THEN x.e - 1 ELSE x.e
       IN Mk(1, ISqrt(M * MantLo), E \div 2 - 7)

\* math.sqrt: a ValueError for x < 0.
MathSqrt(x) ==
  IF IsErr(x) \/ IsNaN(x) THEN x
  ELSE IF IsInf(x) THEN (IF x.s = 1 THEN x ELSE Raise("ValueError"))
  ELSE IF x.m # 0 /\ x.s = -1 THEN Raise("ValueError")
  ELSE SqrtNum(x)

\* numpy.sqrt: NaN for x < 0 (with a RuntimeWarning).
NpSqrt(x) ==
  IF IsErr(x) \/ IsNaN(x) THEN x
  ELSE IF IsInf(x) THEN (IF x.s = 1 THEN x ELSE NaN)
  ELSE IF x.m # 0 /\ x.s = -1 THEN NaN
  ELSE SqrtNum(x)

\* e^u for 0 <= u < Fx * ln(2) / 2, scaled by Fx: the Taylor series.
FxExpSmall(u) ==
  LET u2 == (u * u) \div Fx
      u3 == (u2 * u) \div Fx
      u4 == (u3 * u) \div Fx
      u5 == (u4 * u) \div Fx
      u6 == (u5 * u) \div Fx
  IN Fx + u + u2 \div 2 + u3 \div 6 + u4 \div 24 + u5 \div 120 + u6 \div 720

\* e^x of a finite x: 2^n * e^r with x = n * ln 2 + r, 0 <= r < ln 2, and
\* e^r = (e^(r/2))^2.  Overflows to +inf, underflows to 0.
ExpNum(x) ==
  IF x.m # 0 /\ x.e + Prec - 1 >= 10 THEN (IF x.s = 1 THEN Inf(1) ELSE Zero(1))
  ELSE LET xq == ToFx(x)
           n == xq \div FxLn2
           r == xq % FxLn2
           h == FxExpSmall(r \div 2)
       IN Mk(1, FxMul(h, h), n - 16)

\* numpy.exp: +inf on overflow (with a RuntimeWarning).
NpExp(x) ==
  IF IsErr(x) \/ IsNaN(x) THEN x
  ELSE IF IsInf(x) THEN (IF x.s = 1 THEN x ELSE Zero(1))
  ELSE ExpNum(x)

\* math.exp: an OverflowError ("math range error") on overflow.
MathExp(x) ==
  IF IsErr(x) \/ IsNaN(x) THEN x
  ELSE IF IsInf(x) THEN (IF x.s = 1 THEN x ELSE Zero(1))
  ELSE IF IsInf(ExpNum(x)) THEN Raise("OverflowError")
  ELSE ExpNum(x)

\* sqrt(2 * pi), the constant _norm_pdf_C of scipy.stats.
NormPdfC == Mk(1, 20534, -13)

\* norm.pdf(x, 0.0, 1.0): exp(-x**2 / 2) / sqrt(2 * pi); it underflows to
\* 0.0 from about |x| = 38.6.
NormPdf(x) ==
  IF IsErr(x) \/ IsNaN(x) THEN x
  ELSE IF IsInf(x) THEN Zero(1)
  ELSE NpDiv(NpExp(Neg(NpDiv(Mul(x, x), Two))), NormPdfC)

\* The coefficients of Abramowitz and Stegun 26.2.17, scaled by Fx.
FxMillsP == 15181

FxMillsB1 == 20931

FxMillsB2 == -23368

FxMillsB3 == 116751

FxMillsB4 == -119358

FxMillsB5 == 87181

\* (1 - cdf(t)) / pdf(t) for 0 <= t <= 2.5, scaled by Fx.
FxMillsLow(t) ==
  LET k == FxDiv(Fx, Fx + FxMul(FxMillsP, t))
      h4 == FxMul(FxMillsB5, k) + FxMillsB4
      h3 == FxMul(h4, k) + FxMillsB3
      h2 == FxMul(h3, k) + FxMillsB2
      h1 == FxMul(h2, k) + FxMillsB1
  IN FxMul(h1, k)

\* t + j/c, one level of the continued fraction.
FxCF(t, j, c) == t + FxDiv(j * Fx, c)

\* (1 - cdf(t)) / pdf(t) for 2.5 < t < 40, scaled by Fx: the continued
\* fraction 1/(t + 1/(t + 2/(t + 3/(t + ...)))), cut at depth 12.
FxMillsHigh(t) ==
  FxDiv(Fx, FxCF(t, 1, FxCF(t, 2, FxCF(t, 3, FxCF(t, 4, FxCF(t, 5,
    FxCF(t, 6, FxCF(t, 7, FxCF(t, 8, FxCF(t, 9, FxCF(t, 10, FxCF(t, 11,
    FxCF(t, 12, t)))))))))))))

\* The upper tail 1 - cdf(t) of a finite t >= 0: 0.5 * erfc(t / sqrt 2).
UpperTail(t) ==
  IF IsZero(NormPdf(t)) THEN Zero(1)
  ELSE LET tq == ToFx(t)
       IN Mul(NormPdf(t),
              FromFx(IF 2 * tq <= 5 * Fx THEN FxMillsLow(tq)
                     ELSE FxMillsHigh(tq)))

\* Half an ulp of 1.0 in a double, 2^-54: 1 - q rounds to exactly 1.0 when
\* q is at most this.
HalfUlpOne == Mk(1, 1, -54)

\* The largest modelled number below 1.0.
BelowOne == Mk(1, MantHi - 1, -Prec)

\* norm.cdf(x, 0.0, 1.0).  For x > 0 it is 1 - tail; the result is exactly
\* 1.0 where a double's is (from about x = 8.3) and below 1.0 elsewhere, and
\* it underflows to 0.0 where the tail does (from about x = -38.5).
NormCdf(x) ==
  IF IsErr(x) \/ IsNaN(x) THEN x
  ELSE IF IsInf(x) THEN (IF x.s = 1 THEN One ELSE Zero(1))
  ELSE IF x.m # 0 /\ x.s = -1 THEN UpperTail(Abs(x))
  ELSE LET q == UpperTail(Abs(x))
       IN IF Le(q, HalfUlpOne) THEN One
          ELSE IF Lt(Sub(One, q), One) THEN Sub(One, q)
          ELSE BelowOne

(***************************************************************************)
(* The program.                                                            *)
(***************************************************************************)
\* x**2 of a Python float: an OverflowError when the square of a finite x
\* is out of range.
Square(x) ==
  IF IsNum(x) /\ IsInf(Mul(x, x)) THEN Raise("OverflowError") ELSE Mul(x, x)

\* x * x of a float64: an infinity when out of range.
NpSquare(x) == Mul(x, x)

\* calculate_black_scholes: math.log, math.sqrt and math.exp on Python
\* floats, so a zero divisor and a log or sqrt outside its domain raise.
\* The local d1 of calculate_black_scholes.
primitive_d1(price, ex_price, rfr, ttm, sigma) ==
  PyDiv(Add(MathLog(PyDiv(price, ex_price)),
            Mul(Add(rfr, Mul(Half, Square(sigma))), ttm)),
        Mul(sigma, MathSqrt(ttm)))

\* A slip in d2: the volatility term added to d1, not subtracted.
primitive_d2_added(price, ex_price, rfr, ttm, sigma) ==
  Add(primitive_d1(price, ex_price, rfr, ttm, sigma),
      Mul(sigma, MathSqrt(ttm)))

\* The local d2 of calculate_black_scholes.
primitive_d2(price, ex_price, rfr, ttm, sigma) ==
  Sub(primitive_d1(price, ex_price, rfr, ttm, sigma),
      Mul(sigma, MathSqrt(ttm)))

\* The value calculate_black_scholes returns, its local call_price.
calculate_black_scholes(price, ex_price, rfr, ttm, sigma) ==
  Sub(Mul(price, NormCdf(primitive_d1(price, ex_price, rfr, ttm, sigma))),
      Mul(Mul(ex_price, MathExp(Mul(Neg(rfr), ttm))),
          NormCdf(primitive_d2(price, ex_price, rfr, ttm, sigma))))

\* The default of the parameter r of BlackScholesModel.__init__.
DefaultR == Lit(5, 2)

NotGiven == [k |-> "none", s |-> 1, m |-> 0, e |-> 0]

\* BlackScholesModel.__init__(S, K, T, sigma, r=0.05).
BlackScholesModel(a) ==
  [S |-> a.S, K |-> a.K, T |-> a.T,
   r |-> IF a.r = NotGiven THEN DefaultR ELSE a.r,
   sigma |-> a.sigma]

\* BlackScholesModel.d1: S / K divides two Python floats (and raises on
\* K = 0); np.log and np.sqrt return float64, so the outer division is
\* numpy's and a zero divisor yields an infinity or a NaN.
d1(self) ==
  NpDiv(Add(NpLog(PyDiv(self.S, self.K)),
            Mul(Add(self.r, Mul(Half, Square(self.sigma))), self.T)),
        Mul(self.sigma, NpSqrt(self.T)))

d2(self) == Sub(d1(self), Mul(self.sigma, NpSqrt(self.T)))

call_option_price(self) ==
  Sub(Mul(self.S, NormCdf(d1(self))),
      Mul(Mul(self.K, NpExp(Mul(Neg(self.r), self.T))), NormCdf(d2(self))))

\* A slip in the put: d2 and d1 passed to the cdf without their minus signs.
put_option_price_unnegated(self) ==
  Sub(Mul(Mul(self.K, NpExp(Mul(Neg(self.r), self.T))), NormCdf(d2(self))),
      Mul(self.S, NormCdf(d1(self))))

put_option_price(self) ==
  Sub(Mul(Mul(self.K, NpExp(Mul(Neg(self.r), self.T))),
          NormCdf(Neg(d2(self)))),
      Mul(self.S, NormCdf(Neg(d1(self)))))

delta_call(self) == NormCdf(d1(self))

\* A slip in the put delta: the leading minus sign left out.
delta_put_unsigned(self) == NormCdf(Neg(d1(self)))

delta_put(self) == Neg(NormCdf(Neg(d1(self))))

gamma(self) ==
  NpDiv(NormPdf(d1(self)),
        Mul(Mul(self.S, self.sigma), NpSqrt(self.T)))

theta_call(self) ==
  Sub(NpDiv(Mul(Mul(Neg(self.S), NormPdf(d1(self))), self.sigma),
            Mul(Two, NpSqrt(self.T))),
      Mul(Mul(Mul(self.r, self.K), NpExp(Mul(Neg(self.r), self.T))),
          NormCdf(d2(self))))

theta_put(self) ==
  Add(NpDiv(Mul(Mul(Neg(self.S), NormPdf(d1(self))), self.sigma),
            Mul(Two, NpSqrt(self.T))),
      Mul(Mul(Mul(self.r, self.K), NpExp(Mul(Neg(self.r), self.T))),
          NormCdf(Neg(d2(self)))))

\* A slip in vega: the leading -self.S of theta copied.
vega_negated(self) == Mul(Mul(Neg(self.S), NormPdf(d1(self))), NpSqrt(self.T))

vega(self) == Mul(Mul(self.S, NormPdf(d1(self))), NpSqrt(self.T))

rho_call(self) ==
  Mul(Mul(Mul(self.K, self.T), NpExp(Mul(Neg(self.r), self.T))),
      NormCdf(d2(self)))

rho_put(self) ==
  Mul(Mul(Mul(Neg(self.K), self.T), NpExp(Mul(Neg(self.r), self.T))),
      NormCdf(Neg(d2(self))))

\* The methods of BlackScholesModel and BlackScholesGreeks.
Accessors ==
  {"d1", "d2", "call_option_price", "put_option_price", "delta_call",
   "delta_put", "gamma", "theta_call", "theta_put", "vega", "rho_call",
   "rho_put"}

\* A slip in a method: sqrt(T) kept in the field T for later calls.
SelfAfterCached(name, self) == [self EXCEPT !.T = NpSqrt(self.T)]

\* The fields after the method called name: no method assigns an attribute.
SelfAfter(name, self) == self

\* The default of the parameter window: 252 trading days.
DefaultWindow == Int2F(252)

\* Series.shift(1): every value moves one place down, the first is NaN.
Shift1(close) ==
  [i \in 1..Len(close) |-> IF i = 1 THEN NaN ELSE close[i - 1]]

\* np.log(close / close.shift(1)), element by element.
LogReturns(close) ==
  [i \in 1..Len(close) |-> NpLog(NpDiv(close[i], Shift1(close)[i]))]

\* The sum of values, added from left to right.
Sum(values) ==
  LET partial[i \in 0..Len(values)] ==
        IF i = 0 THEN Zero(1) ELSE Add(partial[i - 1], values[i])
  IN partial[Len(values)]

\* The number of values that are not NaN.
CountValid(values) == Cardinality({i \in 1..Len(values) : ~IsNaN(values[i])})

\* Delta degrees of freedom of Series.std.
Ddof == 1

\* Series.std(skipna=False): a NaN entry makes the result NaN.
SeriesStdKeepNaN(values) ==
  LET avg == NpDiv(Sum(values), Int2F(Len(values)))
      sqr == [i \in 1..Len(values) |-> NpSquare(Sub(avg, values[i]))]
  IN IF Len(values) <= Ddof THEN NaN
     ELSE NpSqrt(NpDiv(Sum(sqr), Int2F(Len(values) - Ddof)))

\* Series.std(ddof=0): the population standard deviation.
SeriesStdPopulation(values) ==
  LET count == CountValid(values)
      zeroed == [i \in 1..Len(values) |->
                   IF IsNaN(values[i]) THEN Zero(1) ELSE values[i]]
      avg == NpDiv(Sum(zeroed), Int2F(count))
      sqr == [i \in 1..Len(values) |->
                IF IsNaN(values[i]) THEN Zero(1)
                ELSE NpSquare(Sub(avg, zeroed[i]))]
  IN IF count <= 0 THEN NaN
     ELSE NpSqrt(NpDiv(Sum(sqr), Int2F(count)))

\* Series.std() (skipna=True, ddof=1), as pandas' nanops.nanvar computes it:
\* NaN entries are masked out, the result is NaN when at most ddof values
\* remain, else sqrt(sum((avg - x)^2) / (count - ddof)).
SeriesStd(values) ==
  LET count == CountValid(values)
      zeroed == [i \in 1..Len(values) |->
                   IF IsNaN(values[i]) THEN Zero(1) ELSE values[i]]
      avg == NpDiv(Sum(zeroed), Int2F(count))
      sqr == [i \in 1..Len(values) |->
                IF IsNaN(values[i]) THEN Zero(1)
                ELSE NpSquare(Sub(avg, zeroed[i]))]
  IN IF count <= Ddof THEN NaN
     ELSE NpSqrt(NpDiv(Sum(sqr), Int2F(count - Ddof)))

\* calculate_historical_volatility(stock_data, window=252); close is the
\* "Close" column of stock_data.
calculate_historical_volatility(close, window) ==
  LET log_returns == LogReturns(close)
      volatility == Mul(NpSqrt(IF window = NotGiven THEN DefaultWindow
                               ELSE window),
                        SeriesStd(log_returns))
  IN volatility

\* The "Close" column after the call: the function assigns to no column.
CloseAfter(close) == close

(***************************************************************************)
(* The state machine: one instance, built by __init__ from the caller's    *)
(* arguments, and the calls made on it.                                    *)
(***************************************************************************)
VARIABLES
  args,        \* what the caller passed: S, K, T, sigma, r, Close, window
  self,        \* the fields of the instance
  stock_data,  \* the "Close" column of the caller's DataFrame
  op,          \* the operation called last
  ret,         \* what it returned, or the exception it raised
  first,       \* history: what each method returned when first called
  calls        \* history: the number of method calls made

vars == <<args, self, stock_data, op, ret, first, calls>>

\* Longest price series and most method calls the model explores.
MaxLen == 4

MaxCalls == 2

SpotSet == {Int2F(-100), Zero(1), Int2F(50), Int2F(100)}

StrikeSet == {Int2F(-100), Zero(1), Int2F(50), Int2F(100)}

MaturitySet == {Int2F(-1), Zero(1), Lit(1, 2), One}

SigmaSet == {Lit(-2, 1), Zero(1), Lit(1, 1), Lit(2, 1)}

RateSet == {NotGiven, Lit(-2, 2)}

\* Closing prices, written in tenths: 100.0, 110.0, 121.0, 133.1.
PriceSet == {1000, 1100, 1210, 1331}

WindowSet == {NotGiven, Int2F(12)}

SeqsUpTo(S, n) == UNION {[1..len -> S] : len \in 0..n}

SomeSeries == <<1000, 1100, 1210>>

\* The "Close" column holding the prices written in tenths.
Column(tenths) == [i \in 1..Len(tenths) |-> Lit(tenths[i], 1)]

Start(a) ==
  /\ args = a
  /\ self = BlackScholesModel(a)
  /\ stock_data = Column(a.Close)
  /\ op = "__init__"
  /\ ret = NotGiven
  /\ first = [n \in Accessors |-> NotGiven]
  /\ calls = 0

\* Every combination of valid and invalid option parameters.
Init ==
  \E a \in [S : SpotSet, K : StrikeSet, T : MaturitySet, sigma : SigmaSet,
            r : RateSet, Close : {SomeSeries}, window : {NotGiven}] :
    Start(a)

\* A method call on the instance.
Invoke(name, value) ==
  /\ op' = name
  /\ ret' = value
  /\ self' = SelfAfter(name, self)
  /\ UNCHANGED <<args, stock_data>>

Call_d1 == Invoke("d1", d1(self))

Call_d2 == Invoke("d2", d2(self))

Call_call_option_price == Invoke("call_option_price", call_option_price(self))

Call_put_option_price == Invoke("put_option_price", put_option_price(self))

Call_delta_call == Invoke("delta_call", delta_call(self))

Call_delta_put == Invoke("delta_put", delta_put(self))

Call_gamma == Invoke("gamma", gamma(self))

Call_theta_call == Invoke("theta_call", theta_call(self))

Call_theta_put == Invoke("theta_put", theta_put(self))

Call_vega == Invoke("vega", vega(self))

Call_rho_call == Invoke("rho_call", rho_call(self))

Call_rho_put == Invoke("rho_put", rho_put(self))

\* The caller prices the instance's contract with the primitive as well.
Call_calculate_black_scholes ==
  /\ op' = "calculate_black_scholes"
  /\ ret' = calculate_black_scholes(self.S, self.K, self.r, self.T, self.sigma)
  /\ UNCHANGED <<args, self, stock_data>>

Call_calculate_historical_volatility ==
  /\ op' = "calculate_historical_volatility"
  /\ ret' = calculate_historical_volatility(stock_data, args.window)
  /\ stock_data' = CloseAfter(stock_data)
  /\ UNCHANGED <<args, self>>

NoHistory == UNCHANGED <<first, calls>>

Next ==
  \/ Call_d1 /\ NoHistory
  \/ Call_d2 /\ NoHistory
  \/ Call_call_option_price /\ NoHistory
  \/ Call_put_option_price /\ NoHistory
  \/ Call_delta_call /\ NoHistory
  \/ Call_delta_put /\ NoHistory
  \/ Call_gamma /\ NoHistory
  \/ Call_theta_call /\ NoHistory
  \/ Call_theta_put /\ NoHistory
  \/ Call_vega /\ NoHistory
  \/ Call_rho_call /\ NoHistory
  \/ Call_rho_put /\ NoHistory
  \/ Call_calculate_black_scholes /\ NoHistory
  \/ Call_calculate_historical_volatility /\ NoHistory

Spec == Init /\ [][Next]_vars

(***************************************************************************)
(* Sequences of method calls on one instance, with the history of what     *)
(* each method returned first.                                             *)
(***************************************************************************)
InitFrame ==
  \E a \in [S : {Int2F(100)}, K : {Int2F(50), Int2F(100)},
            T : {Zero(1), Lit(1, 2), One}, sigma : {Lit(2, 1)},
            r : RateSet, Close : {SomeSeries}, window : {NotGiven}] :
    Start(a)

\* Records the call of the method called name and, the first time, its result.
Track(name) ==
  /\ calls < MaxCalls
  /\ calls' = calls + 1
  /\ first' = IF first[name] = NotGiven THEN [first EXCEPT ![name] = ret']
              ELSE first

NextFrame ==
  \/ Call_d1 /\ Track("d1")
  \/ Call_d2 /\ Track("d2")
  \/ Call_call_option_price /\ Track("call_option_price")
  \/ Call_put_option_price /\ Track("put_option_price")
  \/ Call_delta_call /\ Track("delta_call")
  \/ Call_delta_put /\ Track("delta_put")
  \/ Call_gamma /\ Track("gamma")
  \/ Call_theta_call /\ Track("theta_call")
  \/ Call_theta_put /\ Track("theta_put")
  \/ Call_vega /\ Track("vega")
  \/ Call_rho_call /\ Track("rho_call")
  \/ Call_rho_put /\ Track("rho_put")

SpecFrame == InitFrame /\ [][NextFrame]_vars

(***************************************************************************)
(* The estimator on every price series of at most MaxLen prices.           *)
(***************************************************************************)
InitVol ==
  \E a \in [S : {Int2F(100)}, K : {Int2F(100)}, T : {One},
            sigma : {Lit(2, 1)}, r : {NotGiven},
            Close : SeqsUpTo(PriceSet, MaxLen), window : WindowSet] :
    Start(a)

NextVol == Call_calculate_historical_volatility /\ NoHistory

SpecVol == InitVol /\ [][NextVol]_vars

(***************************************************************************)
(* The properties.                                                         *)
(***************************************************************************)
\* The preconditions of every formula: spot, strike, time to maturity and
\* volatility are all above zero.
Valid(m) ==
  /\ Lt(Zero(1), m.S)
  /\ Lt(Zero(1), m.K)
  /\ Lt(Zero(1), m.T)
  /\ Lt(Zero(1), m.sigma)

\* x and y are finite numbers at most tol apart.
Near(x, y, tol) == IsNum(x) /\ IsNum(y) /\ Le(Abs(Sub(x, y)), tol)

\* The pricing and Greeks methods of an instance, and the primitive.
Formulas == Accessors \cup {"calculate_black_scholes"}

\* Prices agree when they differ by at most 2^-10 of the spot and the strike.
PriceTolerance(m) == Mul(Mk(1, 1, -10), Add(Abs(m.S), Abs(m.K)))

C2_PutCallParity ==
  (Valid(self) /\ op = "put_option_price") =>
    Near(Sub(call_option_price(self), ret),
         Sub(self.S, Mul(self.K, NpExp(Mul(Neg(self.r), self.T)))),
         PriceTolerance(self))

C2_Witness ==
  /\ Valid(self)
  /\ op = "put_option_price"
  /\ Lt(One, ret)
  /\ Lt(One, call_option_price(self))

\* Spot and strike are above zero, and the time to maturity or the
\* volatility is zero (the other one zero or above).
ZeroInput(m) ==
  /\ Lt(Zero(1), m.S) /\ Lt(Zero(1), m.K)
  /\ Le(Zero(1), m.T) /\ Le(Zero(1), m.sigma)
  /\ IsZero(m.T) \/ IsZero(m.sigma)

\* C3: with a time to maturity of 0 or a volatility of 0, no pricing or
\* Greeks function returns a valid-looking (finite) number: the call signals
\* a failure.
C3_ZeroSignalsFailure ==
  (ZeroInput(self) /\ op \in Formulas) => ~IsNum(ret)

\* C4: with 0 or 1 closing prices calculate_historical_volatility signals a
\* failure: it returns no value, not even a NaN.
C4_TooFewPricesFails ==
  (op = "calculate_historical_volatility" /\ Len(args.Close) <= 1) =>
    IsErr(ret)

\* The arguments among spot, strike, time to maturity and volatility that are
\* zero or negative.
NonPositive(m) ==
  {f \in {"S", "K", "T", "sigma"} : IsNum(m[f]) /\ ~Lt(Zero(1), m[f])}

\* C5: when one of spot, strike, time to maturity and volatility is zero or
\* negative, every formula ends in a mathematical error and returns no
\* number.
C5_NonPositiveFails ==
  (Cardinality(NonPositive(self)) = 1 /\ op \in Formulas) => ~IsNum(ret)

\* C6: after any sequence of method calls the fields S, K, T, r and sigma
\* hold the values given at construction (r is 0.05 when not given), and
\* each call returns what the first call of that method returned.
C6_FieldsAndResultsStable ==
  /\ self.S = args.S /\ self.K = args.K /\ self.T = args.T
  /\ self.sigma = args.sigma
  /\ self.r = (IF args.r = NotGiven THEN Lit(5, 2) ELSE args.r)
  /\ op \in Accessors => ret = first[op]

\* One method has been called MaxCalls times on an instance built without r.
C6_Witness ==
  /\ calls = MaxCalls
  /\ Cardinality({n \in Accessors : first[n] # NotGiven}) = 1
  /\ args.r = NotGiven
  /\ IsNum(ret)

\* |d1| of the instance is at most the integer b.
D1Within(m, b) == IsNum(d1(m)) /\ Le(Abs(d1(m)), Int2F(b))

\* C7 as stated: for valid parameters delta_call() is strictly between 0 and
\* 1 and delta_put() strictly between -1 and 0.
C7_DeltaStrictlyInside ==
  /\ (Valid(self) /\ op = "delta_call") =>
       (Lt(Zero(1), ret) /\ Lt(ret, One))
  /\ (Valid(self) /\ op = "delta_put") =>
       (Lt(Neg(One), ret) /\ Lt(ret, Zero(1)))

\* C7, amended: for valid parameters delta_call() is in [0, 1] and
\* delta_put() in [-1, 0]; both are strictly inside while |d1| <= 8 (up to
\* there the normal cdf of a double is neither 0.0 nor 1.0).
C7_DeltaBounds ==
  /\ (Valid(self) /\ op = "delta_call") =>
       /\ Le(Zero(1), ret) /\ Le(ret, One)
       /\ D1Within(self, 8) => (Lt(Zero(1), ret) /\ Lt(ret, One))
  /\ (Valid(self) /\ op = "delta_put") =>
       /\ Le(Neg(One), ret) /\ Le(ret, Zero(1))
       /\ D1Within(self, 8) => (Lt(Neg(One), ret) /\ Lt(ret, Zero(1)))

\* A valid put whose delta is strictly inside (-1, 0).
C7_Witness ==
  /\ Valid(self)
  /\ op = "delta_put"
  /\ D1Within(self, 8)
  /\ Lt(Neg(One), ret) /\ Lt(ret, Zero(1))

\* C8 as stated: for valid parameters gamma() > 0 and vega() > 0.
C8_GammaVegaPositive ==
  (Valid(self) /\ op \in {"gamma", "vega"}) => Lt(Zero(1), ret)

\* C8, amended: for valid parameters gamma() >= 0 and vega() >= 0, and both
\* are above 0 while |d1| <= 38 (up to there the normal pdf of a double is
\* not 0.0).
C8_GammaVegaNonNegative ==
  (Valid(self) /\ op \in {"gamma", "vega"}) =>
    /\ Le(Zero(1), ret)
    /\ D1Within(self, 38) => Lt(Zero(1), ret)

\* A valid instance whose vega is above 0.
C8_Witness ==
  /\ Valid(self)
  /\ op = "vega"
  /\ D1Within(self, 38)
  /\ Lt(Zero(1), ret)

\* The n - 1 log returns ln(price_t / price_(t-1)) of n prices.
Returns(close) ==
  [t \in 1..(Len(close) - 1) |-> NpLog(NpDiv(close[t + 1], close[t]))]

Mean(values) == NpDiv(Sum(values), Int2F(Len(values)))

\* The sample standard deviation: the root of the squared deviations from
\* the mean, summed and divided by one less than their number.
SampleStd(values) ==
  NpSqrt(NpDiv(Sum([i \in 1..Len(values) |->
                      NpSquare(Sub(values[i], Mean(values)))]),
               Int2F(Len(values) - 1)))

\* Consecutive prices (in tenths) stand in one ratio.
EqualRatios(tenths) ==
  \A i \in 2..(Len(tenths) - 1) :
    tenths[i] * tenths[i] = tenths[i - 1] * tenths[i + 1]

\* Rounding leaves a volatility of at most 2^-9 where the exact one is 0.
VolTolerance == Mk(1, 1, -9)

WindowOf(a) == IF a.window = NotGiven THEN Int2F(252) ELSE a.window

\* C9: for n >= 3 positive prices the result is sqrt(window) times the
\* sample standard deviation of the n - 1 log returns (the undefined first
\* entry is left out, not propagated), equal ratios yield 0 within rounding,
\* and the input series is unchanged.
C9_VolatilityOfReturns ==
  (op = "calculate_historical_volatility" /\ Len(args.Close) >= 3) =>
    /\ ret = Mul(NpSqrt(WindowOf(args)), SampleStd(Returns(Column(args.Close))))
    /\ IsNum(ret)
    /\ EqualRatios(args.Close) => Le(ret, VolTolerance)
    /\ stock_data = Column(args.Close)

\* A series of three or more prices with a volatility above 1.
C9_Witness ==
  /\ op = "calculate_historical_volatility"
  /\ Len(args.Close) >= 3
  /\ ~EqualRatios(args.Close)
  /\ Lt(One, ret)

\* C10 as stated: for exactly 2 prices the result is 0 for every window.
C10_TwoPricesGiveZero ==
  (op = "calculate_historical_volatility" /\ Len(args.Close) = 2) =>
    IsZero(ret)

\* C10, amended: for exactly 2 prices the result is NaN for every window
\* (the sample standard deviation of a single return is undefined).
C10_TwoPricesGiveNaN ==
  (op = "calculate_historical_volatility" /\ Len(args.Close) = 2) =>
    IsNaN(ret)

C10_Witness ==
  /\ op = "calculate_historical_volatility"
  /\ Len(args.Close) = 2
  /\ args.window # NotGiven
  /\ IsNaN(ret)

====
